---- MODULE Spec2Model ----
\* Model of aapt2's MultiApkGenerator (tools/aapt2/optimize/MultiApkGenerator.cpp):
\* MultiApkGenerator::FromBaseApk iterates config.artifacts and, per artifact,
\* resolves the output name, builds a filtered clone of the base resource table
\* (MultiApkGenerator::FilterTable), optionally inflates and patches the
\* manifest, creates the output directory and writes the archive.
EXTENDS Integers, Sequences, FiniteSets, TLC

VARIABLES
    config,         \* PostProcessingConfiguration: artifact_format, number of artifacts
    context_,       \* base IAaptContext: min_sdk, verbose
    apk_,           \* LoadedApk: the manifest stored in the base APK
    pre,            \* snapshot of the base table / manifest / context before the run
    idx,            \* position of the range-for over config.artifacts (1-based, 0 before)
    artifact,       \* the Artifact of the current iteration (Maybe)
    pc,             \* position inside FromBaseApk
    run,            \* "running", or the way FromBaseApk ended
    failure,        \* which return statement ended the run (Maybe)
    artifact_name,  \* Maybe<std::string> artifact_name
    tables,         \* resource tables on the heap: the base table and the clone
    table,          \* std::unique_ptr<ResourceTable> table (Maybe handle)
    filters,        \* FilterChain filters
    splits,         \* TableSplitterOptions handed to the TableSplitter
    manifest,       \* std::unique_ptr<XmlResource> manifest (Maybe document)
    inflated,       \* the document as InflateManifest returned it (Maybe)
    consume_ok,     \* result of VersionCollapser::Consume in this iteration (Maybe)
    out_dir_ok,     \* result of file::mkdirs(out) in this iteration (Maybe)
    write_args,     \* arguments of the WriteToArchive call of this iteration (Maybe)
    diags,          \* messages delivered to the IDiagnostics sink in this iteration, in order
    earlier_errors, \* number of Error messages delivered in earlier iterations
    written         \* artifacts whose WriteToArchive call succeeded, in order

vars == <<config, context_, apk_, pre, idx, artifact, pc, run, failure,
          artifact_name, tables, table, filters, splits, manifest, inflated,
          consume_ok, out_dir_ok, write_args, diags, earlier_errors, written>>

\* ---------------------------------------------------------------- bounds
MaxArtifacts == 2

\* ---------------------------------------------------------------- Maybe<T>
Nothing == <<>>
Just(x) == <<x>>
HasValue(m) == m # <<>>
Value(m) == m[1]

\* ---------------------------------------------------------------- configuration
\* Group mappings of the PostProcessingConfiguration (name -> definition).
abi_groups == [n \in {"arm"} |-> <<"armeabi-v7a", "arm64-v8a">>]

screen_density_groups ==
    [n \in {"large", "small"} |->
        IF n = "large" THEN <<[density |-> 480], [density |-> 640], [density |-> 320]>>
                       ELSE <<[density |-> 120], [density |-> 160]>>]

locale_groups == [n \in {"euro"} |-> <<"en", "fr">>]

\* AndroidSdk: optional min_sdk_version.
android_sdk_groups ==
    [n \in {"v21", "any"} |->
        IF n = "v21" THEN [min_sdk_version |-> Just(21)]
                     ELSE [min_sdk_version |-> Nothing]]

\* Group names an artifact may reference; "none" is in no mapping.
AbiRefs == {Nothing, Just("arm"), Just("none")}
DensityRefs == {Nothing, Just("large"), Just("none")}
LocaleRefs == {Nothing, Just("euro"), Just("none")}
SdkRefs == {Nothing, Just("v21"), Just("any"), Just("none")}

Artifacts ==
    [name : {Nothing, Just("app-arm.apk")},
     abi_group : AbiRefs,
     screen_density_group : DensityRefs,
     locale_group : LocaleRefs,
     android_sdk_group : SdkRefs]

ArtifactFormats == {Nothing, Just("${basename}.${abi}.apk")}

ContextMinSdks == {19}
ManifestMinSdks == {16}

\* Values an unchecked read of an empty Maybe<int> may produce.
GarbageInts == {-1, 7}

\* ---------------------------------------------------------------- integers as text
DigitChars == <<"0", "1", "2", "3", "4", "5", "6", "7", "8", "9">>

RECURSIVE Digits(_)
Digits(n) == IF n < 10 THEN <<DigitChars[n + 1]>>
             ELSE Append(Digits(n \div 10), DigitChars[(n % 10) + 1])

\* std::to_string(int)
to_string(n) == IF n < 0 THEN <<"-">> \o Digits(0 - n) ELSE Digits(n)

DigitValue(c) == (CHOOSE i \in 1..10 : DigitChars[i] = c) - 1

RECURSIVE ParseDigits(_)
ParseDigits(s) ==
    IF Len(s) = 0 THEN 0
    ELSE 10 * ParseDigits(SubSeq(s, 1, Len(s) - 1)) + DigitValue(s[Len(s)])

\* ResourceUtils::TryParseInt: a decimal string becomes an integer primitive,
\* anything else yields no item.
TryParseInt(s) ==
    IF Len(s) = 0 \/ s = <<"-">> THEN Nothing
    ELSE IF s[1] = "-"
         THEN Just([type |-> "INT_DEC", data |-> 0 - ParseDigits(Tail(s))])
         ELSE Just([type |-> "INT_DEC", data |-> ParseDigits(s)])

\* ---------------------------------------------------------------- manifest documents
MinSdkAttr(v) == [value |-> to_string(v), compiled_value |-> TryParseInt(to_string(v))]

UsesSdkEls(v) ==
    {Nothing,
     Just([line_number |-> 3, min_sdk_attr |-> Nothing]),
     Just([line_number |-> 3, min_sdk_attr |-> Just(MinSdkAttr(v))])}

ManifestEl(ns, nm, us) == [namespace_uri |-> ns, name |-> nm, uses_sdk |-> us]

\* The AndroidManifest.xml of the base APK, as InflateManifest sees it.
BaseManifests(v) ==
    {[loadable |-> FALSE, root |-> Nothing],
     [loadable |-> TRUE, root |-> Nothing],
     [loadable |-> TRUE,
      root |-> Just(ManifestEl("http://ns", "manifest", Just([line_number |-> 3, min_sdk_attr |-> Just(MinSdkAttr(v))])))],
     [loadable |-> TRUE,
      root |-> Just(ManifestEl("", "application", Just([line_number |-> 3, min_sdk_attr |-> Just(MinSdkAttr(v))])))]}
    \cup {[loadable |-> TRUE, root |-> Just(ManifestEl("", "manifest", us))] : us \in UsesSdkEls(v)}

\* ---------------------------------------------------------------- diagnostics
Diag(level, text, arg, i) == [level |-> level, text |-> text, arg |-> arg, artifact |-> i]
Error(text, arg, i) == Diag("Error", text, arg, i)
Warn(text, arg, i) == Diag("Warn", text, arg, i)
Note(text, arg, i) == Diag("Note", text, arg, i)

\* ---------------------------------------------------------------- resource tables
\* A table is the base content plus the passes that were applied to it.
BaseTable == [content |-> "resources.arsc", passes |-> <<>>]

Pass(kind, min_sdk, densities, config_filter) ==
    [pass |-> kind, min_sdk |-> min_sdk,
     preferred_densities |-> densities, config_filter |-> config_filter]

\* ResourceTable::Clone: a deep copy placed in the heap slot of the clone.
Clone(tbls, from) == [tbls EXCEPT !["clone"] = Just(Value(tbls[from]))]

\* VersionCollapser::Consume(context, table): the pass works on the table it is
\* handed, with the minimum SDK of the context it is handed.
Consume(tbls, h, min_sdk) ==
    [tbls EXCEPT ![h] = Just([Value(@) EXCEPT !.passes =
        Append(@, Pass("VersionCollapser", Just(min_sdk), <<>>, Nothing))])]

\* TableSplitter::SplitTable(table) with the splitter's options.
SplitTable(tbls, h, opts) ==
    [tbls EXCEPT ![h] = Just([Value(@) EXCEPT !.passes =
        Append(@, Pass("TableSplitter", Nothing, opts.preferred_densities, opts.config_filter))])]

NoSplits == [preferred_densities |-> <<>>, config_filter |-> Nothing]

\* ---------------------------------------------------------------- GetAndroidSdk
\* Returns the SDK group of the artifact, if it names one that exists; a
\* reference to a group that does not exist is reported and yields nothing.
GetAndroidSdk(a, dg, i) ==
    IF ~HasValue(a.android_sdk_group)
    THEN [sdk |-> Nothing, diags |-> dg]
    ELSE LET group_name == Value(a.android_sdk_group) IN
         IF group_name \notin DOMAIN android_sdk_groups
         THEN [sdk |-> Nothing,
               diags |-> Append(dg, Error("could not find referenced group", group_name, i))]
         ELSE [sdk |-> Just(android_sdk_groups[group_name]), diags |-> dg]

\* ---------------------------------------------------------------- FilterTable
\* Locals of FilterTable on entry: empty splits, wrappedContext{context_}.
FilterTableEntry(ctx, flt, tbls, dg) ==
    [returned |-> FALSE, table |-> Nothing, filters |-> flt, splits |-> NoSplits,
     min_sdk_ |-> ctx.min_sdk, tables |-> tbls, diags |-> dg, consume_ok |-> Nothing]

AbiFilter(abis) == [kind |-> "AbiFilter", abis |-> abis]

AbiGroupStep(a, st, i) ==
    IF st.returned \/ ~HasValue(a.abi_group) THEN st
    ELSE LET group_name == Value(a.abi_group) IN
         IF group_name \notin DOMAIN abi_groups
         THEN [st EXCEPT !.returned = TRUE,
                         !.diags = Append(@, Error("could not find referenced ABI group", group_name, i))]
         ELSE [st EXCEPT !.filters = Append(@, AbiFilter(abi_groups[group_name]))]

\* Variant: the densities are collected in reverse declaration order.
DensityGroupStep_Reversed(a, st, i) ==
    IF st.returned \/ ~HasValue(a.screen_density_group) THEN st
    ELSE LET group_name == Value(a.screen_density_group) IN
         IF group_name \notin DOMAIN screen_density_groups
         THEN [st EXCEPT !.returned = TRUE,
                         !.diags = Append(@, Error("could not find referenced group", group_name, i))]
         ELSE LET densities == screen_density_groups[group_name] IN
              [st EXCEPT !.splits.preferred_densities =
                  @ \o [k \in 1..Len(densities) |-> densities[Len(densities) + 1 - k].density]]

DensityGroupStep(a, st, i) ==
    IF st.returned \/ ~HasValue(a.screen_density_group) THEN st
    ELSE LET group_name == Value(a.screen_density_group) IN
         IF group_name \notin DOMAIN screen_density_groups
         THEN [st EXCEPT !.returned = TRUE,
                         !.diags = Append(@, Error("could not find referenced group", group_name, i))]
         ELSE LET densities == screen_density_groups[group_name] IN
              [st EXCEPT !.splits.preferred_densities =
                  @ \o [k \in 1..Len(densities) |-> densities[k].density]]

LocaleGroupStep(a, st, i) ==
    IF st.returned \/ ~HasValue(a.locale_group) THEN st
    ELSE LET group_name == Value(a.locale_group) IN
         IF group_name \notin DOMAIN locale_groups
         THEN [st EXCEPT !.returned = TRUE,
                         !.diags = Append(@, Error("could not find referenced group", group_name, i))]
         ELSE [st EXCEPT !.splits.config_filter = Just(locale_groups[group_name])]

\* Variant: the minimum version of the SDK group is not installed in the wrapper.
SdkGroupStep_NoOverride(a, st, i) ==
    IF st.returned THEN st
    ELSE [st EXCEPT !.diags = GetAndroidSdk(a, st.diags, i).diags]

SdkGroupStep(a, st, i) ==
    IF st.returned THEN st
    ELSE LET r == GetAndroidSdk(a, st.diags, i) IN
         IF HasValue(r.sdk) /\ HasValue(Value(r.sdk).min_sdk_version)
         THEN [st EXCEPT !.diags = r.diags,
                         !.min_sdk_ = Value(Value(r.sdk).min_sdk_version)]
         ELSE [st EXCEPT !.diags = r.diags]

\* Variant: the passes are run on old_table itself instead of on a clone.
CloneStep_Alias(st) ==
    IF st.returned THEN st
    ELSE [st EXCEPT !.table = Just("base")]

\* std::unique_ptr<ResourceTable> table = old_table.Clone();
CloneStep(st) ==
    IF st.returned THEN st
    ELSE [st EXCEPT !.tables = Clone(@, "base"), !.table = Just("clone")]

\* Variant: a failed version collapse is reported but the function goes on.
CollapseStep_Ignore(st, consumeOk, i) ==
    IF st.returned THEN st
    ELSE LET collapsed == Consume(st.tables, Value(st.table), st.min_sdk_) IN
         IF ~consumeOk
         THEN [st EXCEPT !.tables = collapsed, !.consume_ok = Just(FALSE),
                         !.diags = Append(@, Error("Failed to strip versioned resources", "", i))]
         ELSE [st EXCEPT !.tables = collapsed, !.consume_ok = Just(TRUE)]

\* consumeOk is the result of VersionCollapser::Consume. When it fails the
\* function returns no table; the heap slot keeps the content the clone had
\* when it was given up.
CollapseStep(st, consumeOk, i) ==
    IF st.returned THEN st
    ELSE LET collapsed == Consume(st.tables, Value(st.table), st.min_sdk_) IN
         IF ~consumeOk
         THEN [st EXCEPT !.returned = TRUE, !.table = Nothing,
                         !.tables = collapsed, !.consume_ok = Just(FALSE),
                         !.diags = Append(@, Error("Failed to strip versioned resources", "", i))]
         ELSE [st EXCEPT !.tables = collapsed, !.consume_ok = Just(TRUE)]

\* Variant: the table is returned without the split.
SplitStep_Skip(st) ==
    IF st.returned THEN st
    ELSE [st EXCEPT !.returned = TRUE]

SplitStep(st) ==
    IF st.returned THEN st
    ELSE [st EXCEPT !.returned = TRUE,
                    !.tables = SplitTable(@, Value(st.table), st.splits)]

FilterTable(a, ctx, flt, tbls, dg, i, consumeOk) ==
    SplitStep(
      CollapseStep(
        CloneStep(
          SdkGroupStep(a,
            LocaleGroupStep(a,
              DensityGroupStep(a,
                AbiGroupStep(a, FilterTableEntry(ctx, flt, tbls, dg), i), i), i), i)),
        consumeOk, i))

\* ---------------------------------------------------------------- manifest
\* LoadedApk::InflateManifest: a new document parsed from the manifest stored
\* in the APK, or null.
InflateManifest(apk) ==
    IF apk.manifest.loadable
    THEN Just([file |-> "AndroidManifest.xml", root |-> apk.manifest.root])
    ELSE Nothing

\* manifest_el->FindChild({}, "uses-sdk")
FindChildUsesSdk(manifest_el) == manifest_el.uses_sdk

\* uses_sdk_el->FindAttribute(xml::kSchemaAndroid, "minSdkVersion")
FindAttributeMinSdk(uses_sdk_el) == uses_sdk_el.min_sdk_attr

\* Variant: only the raw attribute text is rewritten, the compiled value stays.
PatchMinSdk_RawOnly(doc, v) ==
    LET el == Value(doc.root)
        us == Value(el.uses_sdk)
        at == Value(us.min_sdk_attr)
        patched == [at EXCEPT !.value = to_string(v)]
    IN [doc EXCEPT !.root =
           Just([el EXCEPT !.uses_sdk = Just([us EXCEPT !.min_sdk_attr = Just(patched)])])]

\* min_sdk_attr->compiled_value = ResourceUtils::TryParseInt(std::to_string(v));
PatchMinSdk(doc, v) ==
    LET el == Value(doc.root)
        us == Value(el.uses_sdk)
        at == Value(us.min_sdk_attr)
        patched == [at EXCEPT !.compiled_value = TryParseInt(to_string(v))]
    IN [doc EXCEPT !.root =
           Just([el EXCEPT !.uses_sdk = Just([us EXCEPT !.min_sdk_attr = Just(patched)])])]

ManifestResult(res, reason, m, infl, dg) ==
    [result |-> res, failure |-> reason, manifest |-> m, inflated |-> infl, diags |-> dg]

\* Variant: a manifest without a uses-sdk element is rejected.
PatchUsesSdk_Strict(m, android_sdk, dg, i, aborts, garbage) ==
    LET manifest_el == Value(m.root)
        uses_sdk_el == FindChildUsesSdk(manifest_el)
    IN IF ~HasValue(uses_sdk_el)
       THEN ManifestResult("false", Just("MissingMinSdkAttribute"), Just(m), Just(m),
                           Append(dg, Error("missing android:minSdkVersion", m.file, i)))
       ELSE LET min_sdk_attr == FindAttributeMinSdk(Value(uses_sdk_el)) IN
            IF ~HasValue(min_sdk_attr)
            THEN ManifestResult("ok", Nothing, Just(m), Just(m), dg)
            ELSE IF ~HasValue(android_sdk.min_sdk_version)
                 THEN IF aborts
                      THEN ManifestResult("abort", Nothing, Just(m), Just(m), dg)
                      ELSE ManifestResult("ok", Nothing, Just(PatchMinSdk(m, garbage)), Just(m), dg)
                 ELSE ManifestResult("ok", Nothing,
                                     Just(PatchMinSdk(m, Value(android_sdk.min_sdk_version))),
                                     Just(m), dg)

\* The uses-sdk part of the manifest block of FromBaseApk, entered with a
\* document m whose root is an unqualified <manifest>.
\* aborts / garbage: what reading min_sdk_version.value() does when the SDK
\* group carries no minimum version.
PatchUsesSdk(m, android_sdk, dg, i, aborts, garbage) ==
    LET manifest_el == Value(m.root)
        uses_sdk_el == FindChildUsesSdk(manifest_el)
    IN IF ~HasValue(uses_sdk_el)
       THEN ManifestResult("ok", Nothing, Just(m), Just(m), dg)
       ELSE LET min_sdk_attr == FindAttributeMinSdk(Value(uses_sdk_el)) IN
            IF ~HasValue(min_sdk_attr)
            THEN ManifestResult("ok", Nothing, Just(m), Just(m), dg)
            ELSE IF ~HasValue(android_sdk.min_sdk_version)
                 THEN IF aborts
                      THEN ManifestResult("abort", Nothing, Just(m), Just(m), dg)
                      ELSE ManifestResult("ok", Nothing, Just(PatchMinSdk(m, garbage)), Just(m), dg)
                 ELSE ManifestResult("ok", Nothing,
                                     Just(PatchMinSdk(m, Value(android_sdk.min_sdk_version))),
                                     Just(m), dg)

\* Variant: the manifest is inflated and validated for every artifact, the SDK
\* group only guards the patch.
PatchManifest_Always(a, apk, dg, i, aborts, garbage) ==
    LET r == GetAndroidSdk(a, dg, i)
        m == InflateManifest(apk)
    IN IF ~HasValue(m)
       THEN ManifestResult("false", Just("ManifestLoadFailed"), Nothing, Nothing, r.diags)
       ELSE IF ~HasValue(Value(m).root)
       THEN ManifestResult("false", Just("MalformedManifest"), m, m, r.diags)
       ELSE IF Value(Value(m).root).namespace_uri # "" \/ Value(Value(m).root).name # "manifest"
       THEN ManifestResult("false", Just("InvalidManifestRoot"), m, m,
                           Append(r.diags, Error("root tag must be <manifest>", Value(m).file, i)))
       ELSE IF ~HasValue(r.sdk)
       THEN ManifestResult("ok", Nothing, m, m, r.diags)
       ELSE PatchUsesSdk(Value(m), Value(r.sdk), r.diags, i, aborts, garbage)

\* The manifest block of FromBaseApk: GetAndroidSdk, InflateManifest, the
\* checks of the root element and the patch of uses-sdk.
PatchManifest(a, apk, dg, i, aborts, garbage) ==
    LET r == GetAndroidSdk(a, dg, i) IN
    IF ~HasValue(r.sdk)
    THEN ManifestResult("ok", Nothing, Nothing, Nothing, r.diags)
    ELSE LET android_sdk == Value(r.sdk)
             m == InflateManifest(apk)
         IN IF ~HasValue(m)
            THEN ManifestResult("false", Just("ManifestLoadFailed"), Nothing, Nothing, r.diags)
            ELSE IF ~HasValue(Value(m).root)
            THEN ManifestResult("false", Just("MalformedManifest"), m, m, r.diags)
            ELSE IF Value(Value(m).root).namespace_uri # "" \/ Value(Value(m).root).name # "manifest"
            THEN ManifestResult("false", Just("InvalidManifestRoot"), m, m,
                                Append(r.diags, Error("root tag must be <manifest>", Value(m).file, i)))
            ELSE PatchUsesSdk(Value(m), android_sdk, r.diags, i, aborts, garbage)

\* ---------------------------------------------------------------- FromBaseApk
\* Variant: a failed step skips to the next artifact ("continue").
ReturnFalse_Continue(reason) == [run |-> "running", pc |-> "loop", failure |-> Just(reason)]

\* How a "return false" / "return {}" inside the loop ends the run.
ReturnFalse(reason) == [run |-> "failure", pc |-> "done", failure |-> Just(reason)]

TypeOK ==
    /\ run \in {"running", "success", "failure", "aborted"}
    /\ pc \in {"loop", "filter", "manifest", "mkdirs", "write", "done"}
    /\ idx \in 0..config.artifacts_size
    /\ earlier_errors \in 0..(2 * MaxArtifacts)

Init ==
    /\ config \in [artifact_format : ArtifactFormats, artifacts_size : 0..MaxArtifacts]
    /\ context_ \in [min_sdk : ContextMinSdks, verbose : BOOLEAN]
    /\ \E v \in ManifestMinSdks : \E m \in BaseManifests(v) : apk_ = [manifest |-> m]
    /\ tables = [h \in {"base", "clone"} |-> IF h = "base" THEN Just(BaseTable) ELSE Nothing]
    /\ pre = [table |-> tables["base"], manifest |-> apk_.manifest, min_sdk |-> context_.min_sdk]
    /\ idx = 0
    /\ artifact = Nothing
    /\ pc = "loop"
    /\ run = "running"
    /\ failure = Nothing
    /\ artifact_name = Nothing
    /\ table = Nothing
    /\ filters = <<>>
    /\ splits = NoSplits
    /\ manifest = Nothing
    /\ inflated = Nothing
    /\ consume_ok = Nothing
    /\ out_dir_ok = Nothing
    /\ write_args = Nothing
    /\ diags = <<>>
    /\ earlier_errors = 0
    /\ written = <<>>

\* The variables an action sets when the run ends with "return false".
Return(r) ==
    /\ run' = r.run
    /\ pc' = r.pc
    /\ failure' = r.failure

\* Variant: the test of the global template is inverted.
MissingNameTemplate_Inverted(a, cfg) == ~HasValue(a.name) /\ HasValue(cfg.artifact_format)

\* !artifact.name && !config.artifact_format
MissingNameTemplate(a, cfg) == ~HasValue(a.name) /\ ~HasValue(cfg.artifact_format)

\* Number of Error messages in a sequence of diagnostics.
ErrorCount(dg) == Cardinality({k \in 1..Len(dg) : dg[k].level = "Error"})

\* Variant: the loop does not advance.
NextIndex_Stuck(i) == i

\* Next element of the range-for.
NextIndex(i) == i + 1

\* Loop head and naming: the next artifact of config.artifacts is taken, the
\* locals of the previous iteration are gone, and the artifact name is resolved.
\* nameOk is the result of Artifact::Name / Artifact::ToArtifactName.
BeginArtifact ==
    /\ run = "running" /\ pc = "loop" /\ idx < config.artifacts_size
    /\ \E a \in Artifacts, nameOk \in BOOLEAN :
        /\ idx' = NextIndex(idx)
        /\ artifact' = Just(a)
        /\ filters' = <<>>
        /\ table' = Nothing
        /\ tables' = [tables EXCEPT !["clone"] = Nothing]
        /\ manifest' = Nothing
        /\ inflated' = Nothing
        /\ consume_ok' = Nothing
        /\ out_dir_ok' = Nothing
        /\ write_args' = Nothing
        /\ splits' = NoSplits
        /\ earlier_errors' = earlier_errors + ErrorCount(diags)
        /\ IF MissingNameTemplate(a, config)
           THEN /\ diags' = <<Error("Artifact does not have a name and no global name template defined", "", idx')>>
                /\ artifact_name' = Nothing
                /\ Return(ReturnFalse("MissingNameTemplate"))
           ELSE IF ~nameOk
           THEN /\ diags' = <<Error("Could not determine split APK artifact name", "", idx')>>
                /\ artifact_name' = Nothing
                /\ Return(ReturnFalse("ArtifactNameUnresolved"))
           ELSE /\ artifact_name' = IF HasValue(a.name) THEN a.name ELSE Just("app.generated.apk")
                /\ pc' = "filter"
                /\ diags' = <<>>
                /\ UNCHANGED <<run, failure>>
    /\ UNCHANGED <<config, context_, apk_, pre, written>>

\* The loop is over: return true.
ReturnTrue ==
    /\ run = "running" /\ pc = "loop" /\ idx >= config.artifacts_size
    /\ run' = "success"
    /\ pc' = "done"
    /\ UNCHANGED <<config, context_, apk_, pre, idx, artifact, failure, artifact_name, tables,
                   table, filters, splits, manifest, inflated, consume_ok, out_dir_ok, write_args,
                   diags, earlier_errors, written>>

\* table = FilterTable(artifact, config, *apk_->GetResourceTable(), &filters);
\* if (!table) return false;
FilterTableCall ==
    /\ run = "running" /\ pc = "filter"
    /\ \E consumeOk \in BOOLEAN :
        LET st == FilterTable(Value(artifact), context_, filters, tables, diags, idx, consumeOk) IN
        /\ table' = st.table
        /\ tables' = st.tables
        /\ filters' = st.filters
        /\ splits' = st.splits
        /\ consume_ok' = st.consume_ok
        /\ diags' = st.diags
        /\ IF ~HasValue(st.table)
           THEN Return(ReturnFalse("FilterTableFailed"))
           ELSE pc' = "manifest" /\ UNCHANGED <<run, failure>>
    /\ UNCHANGED <<config, context_, apk_, pre, idx, artifact, artifact_name, manifest, inflated,
                   out_dir_ok, write_args, earlier_errors, written>>

\* The manifest block: maybe_sdk = GetAndroidSdk(...); if (maybe_sdk) { ... }
ManifestBlock ==
    /\ run = "running" /\ pc = "manifest"
    /\ \E aborts \in BOOLEAN, garbage \in GarbageInts :
        LET r == PatchManifest(Value(artifact), apk_, diags, idx, aborts, garbage) IN
        /\ manifest' = r.manifest
        /\ inflated' = r.inflated
        /\ diags' = r.diags
        /\ IF r.result = "false" THEN Return(ReturnFalse(Value(r.failure)))
           ELSE IF r.result = "abort"
           THEN run' = "aborted" /\ pc' = "done" /\ UNCHANGED failure
           ELSE pc' = "mkdirs" /\ UNCHANGED <<run, failure>>
    /\ UNCHANGED <<config, context_, apk_, pre, idx, artifact, artifact_name, tables, table,
                   filters, splits, consume_ok, out_dir_ok, write_args, earlier_errors, written>>

\* Variant: a failed mkdirs is reported as an error and ends the run.
OutDirStep_Fatal(ok, dg, out, i) ==
    IF ~ok
    THEN [diags |-> Append(dg, Error("could not create out dir", out, i)), goes_on |-> FALSE]
    ELSE [diags |-> dg, goes_on |-> TRUE]

\* What a failed file::mkdirs(out) leads to: a warning, and the iteration goes on.
OutDirStep(ok, dg, out, i) ==
    IF ~ok
    THEN [diags |-> Append(dg, Warn("could not create out dir", out, i)), goes_on |-> TRUE]
    ELSE [diags |-> dg, goes_on |-> TRUE]

VerboseNote(ctx, dg, text, out, i) ==
    IF ctx.verbose THEN Append(dg, Note(text, out, i)) ELSE dg

\* mkdirs(out), AppendPath, the "Generating split" note.
MakeOutDir ==
    /\ run = "running" /\ pc = "mkdirs"
    /\ \E ok \in BOOLEAN :
        LET r == OutDirStep(ok, diags, "out_dir", idx) IN
        /\ out_dir_ok' = Just(ok)
        /\ diags' = VerboseNote(context_, r.diags, "Generating split", Value(artifact_name), idx)
        /\ IF r.goes_on THEN pc' = "write" /\ UNCHANGED <<run, failure>>
           ELSE Return(ReturnFalse("OutputDirUnavailable"))
    /\ UNCHANGED <<config, context_, apk_, pre, idx, artifact, artifact_name, tables, table,
                   filters, splits, manifest, inflated, consume_ok, write_args, earlier_errors,
                   written>>

\* Variant: the result of WriteToArchive is tested the wrong way round.
WriteFailed_Negated(ok) == ok

\* if (!apk_->WriteToArchive(...)) return false;
WriteFailed(ok) == ~ok

\* CreateZipFileArchiveWriter, the "Writing output" note, WriteToArchive.
\* ok is the result of WriteToArchive.
WriteArchive ==
    /\ run = "running" /\ pc = "write"
    /\ \E ok \in BOOLEAN :
        /\ diags' = VerboseNote(context_, diags, "Writing output", Value(artifact_name), idx)
        /\ write_args' = Just([context_min_sdk |-> context_.min_sdk,
                               table |-> tables[Value(table)],
                               filters |-> filters,
                               manifest |-> manifest,
                               out |-> Value(artifact_name),
                               ok |-> ok])
        /\ written' = IF ok THEN Append(written, idx) ELSE written
        /\ IF WriteFailed(ok) THEN Return(ReturnFalse("ArchiveWriteFailed"))
           ELSE pc' = "loop" /\ UNCHANGED <<run, failure>>
    /\ UNCHANGED <<config, context_, apk_, pre, idx, artifact, artifact_name, tables, table,
                   filters, splits, manifest, inflated, consume_ok, out_dir_ok, earlier_errors>>

Next ==
    \/ BeginArtifact
    \/ ReturnTrue
    \/ FilterTableCall
    \/ ManifestBlock
    \/ MakeOutDir
    \/ WriteArchive

Spec == Init /\ [][Next]_vars

\* FromBaseApk is one sequential, blocking call: a step that can be taken is taken.
FairSpec == Spec /\ WF_vars(Next)

\* ================================================================ properties
WrittenSet == {written[k] : k \in 1..Len(written)}

ErrorsFor(i) == {k \in 1..Len(diags) : diags[k].level = "Error" /\ diags[k].artifact = i}

\* Messages appended to the sink by a step inside an iteration.
NewDiags == SubSeq(diags', Len(diags) + 1, Len(diags'))

IsPrefix(s, t) == Len(s) <= Len(t) /\ SubSeq(t, 1, Len(s)) = s

Absent(ref, groups) == HasValue(ref) /\ Value(ref) \notin DOMAIN groups

RefsAbsentGroup(a) ==
    \/ Absent(a.abi_group, abi_groups)
    \/ Absent(a.screen_density_group, screen_density_groups)
    \/ Absent(a.locale_group, locale_groups)
    \/ Absent(a.android_sdk_group, android_sdk_groups)

SdkResolves(a) == HasValue(a.android_sdk_group) /\ ~Absent(a.android_sdk_group, android_sdk_groups)

\* The base manifest has an unqualified <manifest> root.
ValidRoot(m) ==
    /\ m.loadable /\ HasValue(m.root)
    /\ Value(m.root).namespace_uri = "" /\ Value(m.root).name = "manifest"

HasUsesSdk(m) == ValidRoot(m) /\ HasValue(Value(m.root).uses_sdk)

HasMinSdkAttr(m) == HasUsesSdk(m) /\ HasValue(Value(Value(m.root).uses_sdk).min_sdk_attr)

\* Compiled minSdkVersion of a document that has the attribute.
MinSdkOf(doc) == Value(Value(Value(doc.root).uses_sdk).min_sdk_attr).compiled_value

IntItem(n) == Just([type |-> "INT_DEC", data |-> n])

\* C1: fail-fast. A step that fails ends the run with failure in the same
\* step, and once a step has failed nothing is executed any more: no naming,
\* filtering, manifest inflation or write of a later artifact.
C1_FailFast ==
    [][ /\ (HasValue(failure') => run' = "failure" /\ pc' = "done")
        /\ (HasValue(failure) => UNCHANGED vars) ]_vars

C1_Witness == run = "failure" /\ HasValue(failure) /\ idx < config.artifacts_size

\* C2: an artifact that references a group absent from its axis mapping, on
\* any of the four axes (ABI, screen density, locale, Android SDK), is never
\* written, and a run that has reached it does not return success.
C2_AbsentGroupFails ==
    (HasValue(artifact) /\ RefsAbsentGroup(Value(artifact)))
        => (idx \notin WrittenSet /\ run # "success")

\* C3: an artifact whose SDK group resolves and whose manifest has a uses-sdk
\* element without android:minSdkVersion is never written, and a run that has
\* reached it does not return success.
C3_MissingMinSdkAttrFails ==
    (/\ HasValue(artifact) /\ SdkResolves(Value(artifact))
     /\ HasUsesSdk(apk_.manifest) /\ ~HasMinSdkAttr(apk_.manifest)
     /\ HasValue(inflated))
        => (idx \notin WrittenSet /\ run # "success")

\* C4: an artifact with neither an explicit name nor a global naming template
\* fails the run with an Error diagnostic, and no table clone, manifest
\* inflation or archive write happens for it.
C4_MissingNameTemplate ==
    (HasValue(artifact) /\ ~HasValue(Value(artifact).name) /\ ~HasValue(config.artifact_format))
        => (/\ run = "failure" /\ pc = "done"
            /\ ErrorsFor(idx) # {} /\ diags[Len(diags)].level = "Error"
            /\ ~HasValue(tables["clone"]) /\ ~HasValue(table)
            /\ ~HasValue(inflated) /\ ~HasValue(manifest)
            /\ ~HasValue(out_dir_ok) /\ ~HasValue(write_args)
            /\ idx \notin WrittenSet)

C4_Witness ==
    /\ HasValue(artifact) /\ ~HasValue(Value(artifact).name) /\ ~HasValue(config.artifact_format)
    /\ idx = 2 /\ written = <<1>> /\ run = "failure"

\* C5: in every state of every run, finished or not, the base resource table
\* has its pre-run content; the passes only ever touch the clone.
C5_BaseTableUnchanged == tables["base"] = pre.table /\ pre.table = Just(BaseTable)

C5_Witness ==
    /\ run \in {"success", "failure"} /\ Len(written) >= 1
    /\ HasValue(tables["clone"]) /\ Len(Value(tables["clone"]).passes) = 2

\* C6: when the base manifest carries minSdkVersion V and the artifact's SDK
\* group carries the minimum version W, the manifest handed to the archive
\* write has the compiled value W while the manifest of the base APK still has
\* V; every manifest inflated, for any artifact, starts as the base manifest.
C6_SdkPatchIsolation ==
    /\ apk_.manifest = pre.manifest
    /\ HasValue(inflated) => Value(inflated).root = pre.manifest.root
    /\ (/\ HasValue(artifact) /\ SdkResolves(Value(artifact)) /\ HasMinSdkAttr(pre.manifest)
        /\ HasValue(android_sdk_groups[Value(Value(artifact).android_sdk_group)].min_sdk_version)
        /\ HasValue(write_args))
           => (/\ HasValue(Value(write_args).manifest)
               /\ MinSdkOf(Value(Value(write_args).manifest)) =
                      IntItem(Value(android_sdk_groups[Value(Value(artifact).android_sdk_group)].min_sdk_version))
               /\ \E v \in ManifestMinSdks :
                      /\ MinSdkOf(apk_.manifest) = IntItem(v)
                      /\ MinSdkOf(Value(inflated)) = IntItem(v)
                      /\ MinSdkOf(Value(Value(write_args).manifest)) # IntItem(v))

C6_Witness ==
    /\ idx = 2 /\ written = <<1, 2>> /\ HasValue(write_args)
    /\ Value(artifact).android_sdk_group = Just("v21")
    /\ HasMinSdkAttr(apk_.manifest)
    /\ MinSdkOf(Value(Value(write_args).manifest)) = IntItem(21)
    /\ MinSdkOf(apk_.manifest) = IntItem(16)

\* C7: for an artifact whose SDK group resolves and whose manifest has a valid
\* <manifest> root without a uses-sdk child, the manifest block raises no
\* error and changes nothing: the artifact goes on to the write step with the
\* manifest as inflated, and only the write can still fail it.
C7_NoUsesSdkNoError ==
    (/\ HasValue(artifact) /\ SdkResolves(Value(artifact))
     /\ ValidRoot(apk_.manifest) /\ ~HasUsesSdk(apk_.manifest)
     /\ pc \notin {"filter", "manifest"} /\ HasValue(table))
        => (/\ HasValue(manifest) /\ manifest = inflated
            /\ Value(manifest).root = apk_.manifest.root
            /\ ErrorsFor(idx) = {}
            /\ run # "aborted"
            /\ (run = "failure" => failure = Just("ArchiveWriteFailed"))
            /\ (HasValue(write_args) => Value(write_args).manifest = manifest))

C7_Witness ==
    /\ HasValue(artifact) /\ SdkResolves(Value(artifact))
    /\ ValidRoot(apk_.manifest) /\ ~HasUsesSdk(apk_.manifest)
    /\ HasValue(write_args) /\ idx \in WrittenSet

C9_OutDirFailureNotFatal ==
    [][ /\ (pc = "mkdirs" =>
              /\ pc' = "write" /\ run' = "running" /\ failure' = failure
              /\ \A k \in 1..Len(NewDiags) : NewDiags[k].level # "Error"
              /\ (out_dir_ok' = Just(FALSE) =>
                     \E k \in 1..Len(NewDiags) :
                        NewDiags[k].level = "Warn" /\ NewDiags[k].text = "could not create out dir"))
        /\ (pc = "write" =>
              /\ HasValue(write_args')
              /\ (Value(write_args').ok <=> run' = "running" /\ pc' = "loop" /\ idx \in {written'[k] : k \in 1..Len(written')})
              /\ (~Value(write_args').ok <=> run' = "failure")) ]_vars

C9_Witness == out_dir_ok = Just(FALSE) /\ HasValue(write_args) /\ idx \in WrittenSet /\ pc = "loop"

\* C10: whenever the run has returned failure because of one of the pipeline's
\* own checks, an Error diagnostic was emitted for the failing artifact.
C10_FailuresHaveError ==
    (run = "failure" /\ failure \in {Just("MissingNameTemplate"), Just("ArtifactNameUnresolved"),
                                      Just("FilterTableFailed"), Just("MalformedManifest"),
                                      Just("InvalidManifestRoot"), Just("MissingMinSdkAttribute")})
        => ErrorsFor(idx) # {}

\* C11: errors are terminal. An artifact for which an Error diagnostic was
\* emitted is not written and its run does not return success, and a run that
\* has returned success has emitted no Error diagnostic at all.
C11_ErrorsAreTerminal ==
    /\ (ErrorsFor(idx) # {} => (idx \notin WrittenSet /\ run # "success"))
    /\ (run = "success" => (earlier_errors = 0 /\ ErrorCount(diags) = 0))

\* The axis a "could not find referenced ... group" message names, if any.
AxisNamedBy(text) ==
    IF text = "could not find referenced ABI group" THEN Just("ABI")
    ELSE IF text = "could not find referenced screen density group" THEN Just("density")
    ELSE IF text = "could not find referenced locale group" THEN Just("locale")
    ELSE IF text = "could not find referenced Android SDK group" THEN Just("SDK")
    ELSE Nothing

GroupMissingTexts ==
    {"could not find referenced group", "could not find referenced ABI group",
     "could not find referenced screen density group", "could not find referenced locale group",
     "could not find referenced Android SDK group"}

AxisRef(a, axis) ==
    IF axis = "ABI" THEN a.abi_group
    ELSE IF axis = "density" THEN a.screen_density_group
    ELSE IF axis = "locale" THEN a.locale_group
    ELSE a.android_sdk_group

\* C12: every Error diagnostic about an absent group names the axis of the
\* lookup that failed and the name of the missing group, the one the artifact
\* references on that axis.
C12_MissingGroupNamesAxis ==
    \A k \in ErrorsFor(idx) :
        diags[k].text \in GroupMissingTexts =>
            /\ HasValue(AxisNamedBy(diags[k].text))
            /\ AxisRef(Value(artifact), Value(AxisNamedBy(diags[k].text))) = Just(diags[k].arg)

\* Progress of FromBaseApk: the iteration and the position inside it; "loop"
\* is the end of iteration idx, "done" lies behind the last iteration.
Rank(p) ==
    IF p = "filter" THEN 1 ELSE IF p = "manifest" THEN 2 ELSE IF p = "mkdirs" THEN 3
    ELSE IF p = "write" THEN 4 ELSE 5

Measure == IF pc = "done" THEN 6 * config.artifacts_size + 6 ELSE 6 * idx + Rank(pc)

\* The statement at the current position can execute: the loop head always
\* can (next artifact or return true), a later statement has the locals it reads.
CanStep ==
    \/ pc = "loop" /\ idx <= config.artifacts_size
    \/ pc \in {"filter", "manifest"} /\ HasValue(artifact) /\ idx \in 1..config.artifacts_size
    \/ pc \in {"mkdirs", "write"} /\ HasValue(artifact) /\ HasValue(artifact_name) /\ HasValue(table)

\* C13: the run always ends: it is never stuck before it has returned, and
\* every step moves strictly forward in a bounded order (the next artifact in
\* declaration order, or the next statement of the iteration, never the same
\* one twice), so that a run whose steps are taken ends after finitely many;
\* it ends in success exactly when every artifact of config.artifacts has been
\* written, once each and in declaration order.
C13_TerminatesEachOnce ==
    /\ [](run = "running" => CanStep)
    /\ [](run # "running" => pc = "done")
    /\ [](Measure <= 6 * config.artifacts_size + 6)
    /\ [](pc = "done" =>
            (run = "success" <=> written = [k \in 1..config.artifacts_size |-> k]))
    /\ [][ /\ Measure' > Measure
           /\ idx' \in {idx, idx + 1}
           /\ (idx' = idx + 1 => pc = "loop")
           /\ (run' = "success" => idx = config.artifacts_size) ]_vars

C13_Witness == run = "success" /\ config.artifacts_size = MaxArtifacts /\ Len(written) = MaxArtifacts

\* Names of the passes applied to a table, in order.
PassNames(t) == [k \in 1..Len(t.passes) |-> t.passes[k].pass]

\* C14: per-artifact step order. Whatever step has acted for the current
\* artifact, the steps before it have acted and succeeded: a table exists only
\* for a named artifact and has been cloned, version-collapsed and split in
\* that order; a manifest is inflated only after the table step and only for a
\* resolved SDK group; the output directory step and the archive write come
\* after the manifest block, with a validated manifest if and only if the SDK
\* group resolved.
C14_StepOrder ==
    /\ (pc \in {"filter", "manifest", "mkdirs", "write"} => HasValue(artifact_name))
    /\ (HasValue(table) =>
            /\ HasValue(artifact_name)
            /\ table = Just("clone")
            /\ PassNames(Value(tables["clone"])) = <<"VersionCollapser", "TableSplitter">>)
    /\ (pc \in {"manifest", "mkdirs", "write"} => HasValue(table))
    /\ (HasValue(inflated) => HasValue(table) /\ SdkResolves(Value(artifact)))
    /\ (HasValue(out_dir_ok) \/ pc \in {"mkdirs", "write"} =>
            /\ HasValue(table)
            /\ (HasValue(manifest) <=> SdkResolves(Value(artifact)))
            /\ (HasValue(manifest) => ValidRoot(apk_.manifest)))
    /\ (HasValue(write_args) \/ pc = "write" => HasValue(out_dir_ok))
    /\ (HasValue(write_args) =>
            /\ PassNames(Value(Value(write_args).table)) = <<"VersionCollapser", "TableSplitter">>
            /\ Value(write_args).manifest = manifest)
    /\ (idx \in WrittenSet => HasValue(write_args) /\ Value(write_args).ok)

C14_Witness ==
    /\ idx \in WrittenSet /\ HasValue(write_args) /\ HasValue(manifest)
    /\ Value(artifact).android_sdk_group = Just("v21") /\ HasMinSdkAttr(apk_.manifest)

\* The minimum SDK the version collapse of an artifact has to use.
ExpectedMinSdk(a) ==
    IF SdkResolves(a) /\ HasValue(android_sdk_groups[Value(a.android_sdk_group)].min_sdk_version)
    THEN Value(android_sdk_groups[Value(a.android_sdk_group)].min_sdk_version)
    ELSE pre.min_sdk

\* C15: the base context keeps its minimum SDK throughout every run, and the
\* version collapse of every artifact runs with the minimum version of the
\* artifact's own SDK group when that group resolves and carries one, and with
\* the base context's minimum SDK otherwise, whatever earlier artifacts used.
C15_MinSdkOverrideScoped ==
    /\ context_.min_sdk = pre.min_sdk
    /\ (HasValue(consume_ok) =>
            /\ HasValue(tables["clone"])
            /\ Value(tables["clone"]).passes[1].pass = "VersionCollapser"
            /\ Value(tables["clone"]).passes[1].min_sdk = Just(ExpectedMinSdk(Value(artifact))))

C15_Witness ==
    /\ idx = 2 /\ written = <<1>> /\ consume_ok = Just(TRUE)
    /\ ~HasValue(Value(artifact).android_sdk_group)
    /\ Value(tables["clone"]).passes[1].min_sdk = Just(19)
    /\ context_.min_sdk = 19

\* C16: for an artifact bound to a resolvable SDK group without a minimum
\* version, and a base manifest whose uses-sdk element carries a minSdkVersion
\* attribute, the manifest is not loaded, the minimum version is not read (the
\* run does not die reading it) and the attribute is not overwritten.
C16_NoMinVersionNoPatch ==
    (/\ HasValue(artifact) /\ SdkResolves(Value(artifact))
     /\ ~HasValue(android_sdk_groups[Value(Value(artifact).android_sdk_group)].min_sdk_version)
     /\ HasMinSdkAttr(apk_.manifest))
        => (/\ ~HasValue(inflated)
            /\ run # "aborted"
            /\ (HasValue(manifest) => MinSdkOf(Value(manifest)) = MinSdkOf(apk_.manifest)))

\* C17: the archive write of an artifact runs with the same effective minimum
\* SDK as the version collapse of that artifact's table.
C17_WriteUsesEffectiveMinSdk ==
    HasValue(write_args) =>
        Value(Value(write_args).table).passes[1].min_sdk = Just(Value(write_args).context_min_sdk)

\* C18: for an artifact without SDK group the manifest is never inflated or
\* patched and the write receives a null manifest; a manifest is inflated only
\* for an artifact whose SDK group resolved, and at most once per artifact
\* (only the manifest block of an iteration inflates, and only when nothing was
\* inflated in that iteration yet).
C18_ManifestOnlyForSdk ==
    /\ []((HasValue(artifact) /\ ~HasValue(Value(artifact).android_sdk_group)) =>
            /\ ~HasValue(inflated) /\ ~HasValue(manifest)
            /\ (HasValue(write_args) => ~HasValue(Value(write_args).manifest)))
    /\ [](HasValue(inflated) \/ HasValue(manifest) =>
            HasValue(artifact) /\ SdkResolves(Value(artifact)))
    /\ [][ inflated' # inflated =>
              \/ pc = "manifest" /\ ~HasValue(inflated) /\ idx' = idx
              \/ pc = "loop" /\ ~HasValue(inflated') /\ idx' = idx + 1 ]_vars

C18_Witness ==
    /\ HasValue(artifact) /\ ~HasValue(Value(artifact).android_sdk_group)
    /\ HasValue(write_args) /\ ~HasValue(Value(write_args).manifest)
    /\ idx = 2 /\ written = <<1, 2>> /\ apk_.manifest.loadable

\* C19: when the version collapse of the cloned table fails, an Error
\* diagnostic is emitted as the last message, the table split is not run,
\* FilterTable returns no table, nothing further happens for the artifact
\* (no manifest, no output directory, no write) and the run returns failure.
C19_CollapseFailureFatal ==
    consume_ok = Just(FALSE) =>
        /\ run = "failure" /\ pc = "done"
        /\ ~HasValue(table)
        /\ Len(diags) > 0 /\ diags[Len(diags)].level = "Error"
        /\ diags[Len(diags)].text = "Failed to strip versioned resources"
        /\ PassNames(Value(tables["clone"])) = <<"VersionCollapser">>
        /\ ~HasValue(inflated) /\ ~HasValue(manifest)
        /\ ~HasValue(out_dir_ok) /\ ~HasValue(write_args)
        /\ idx \notin WrittenSet

C19_Witness ==
    /\ consume_ok = Just(FALSE) /\ run = "failure" /\ idx = 2 /\ written = <<1>>

\* What the bindings of an artifact alone ask for.
ExpectedDensities(a) ==
    IF a.screen_density_group = Just("large") THEN <<480, 640, 320>>
    ELSE IF a.screen_density_group = Just("small") THEN <<120, 160>>
    ELSE <<>>

ExpectedFilters(a) ==
    IF a.abi_group = Just("arm")
    THEN <<[kind |-> "AbiFilter", abis |-> <<"armeabi-v7a", "arm64-v8a">>]>>
    ELSE <<>>

ExpectedConfigFilter(a) == IF a.locale_group = Just("euro") THEN Just(<<"en", "fr">>) ELSE Nothing

\* C20: whenever FilterTable has produced a table for the current artifact,
\* the preferred-density list is the density list of the artifact's density
\* group in declaration order (empty without a density group), the filter
\* chain holds exactly one ABI filter if the artifact has an ABI group and is
\* empty otherwise, the locale filter is that of the artifact's locale group,
\* and the split pass and the archive write got exactly these.
C20_FiltersFromArtifactAlone ==
    HasValue(table) =>
        /\ splits.preferred_densities = ExpectedDensities(Value(artifact))
        /\ splits.config_filter = ExpectedConfigFilter(Value(artifact))
        /\ filters = ExpectedFilters(Value(artifact))
        /\ (Len(filters) = 1 <=> HasValue(Value(artifact).abi_group))
        /\ Value(tables["clone"]).passes[2].preferred_densities = ExpectedDensities(Value(artifact))
        /\ Value(tables["clone"]).passes[2].config_filter = ExpectedConfigFilter(Value(artifact))
        /\ (HasValue(write_args) =>
                /\ Value(write_args).filters = ExpectedFilters(Value(artifact))
                /\ Value(write_args).table = tables["clone"])

C20_Witness ==
    /\ idx = 2 /\ written = <<1, 2>> /\ HasValue(write_args)
    /\ Value(artifact).screen_density_group = Just("large")
    /\ ~HasValue(Value(artifact).abi_group)
    /\ splits.preferred_densities = <<480, 640, 320>> /\ filters = <<>>
====
